---- MODULE Spec2Model ----
(***************************************************************************)
(* Model of pytex.latex.table: the Table class, its body entries          *)
(* (_tableRow, _tableSeparator, _tableMultiColumn), the cell formatter    *)
(* and the generation of the LaTeX lines.                                  *)
(*                                                                         *)
(* A Python str is modelled as a sequence of one-character strings, so    *)
(* that replace, split, ljust and len are computed character by           *)
(* character.  Indices passed by the caller (idx, num_cols) are 0-based   *)
(* as in the source; sequences of the model are 1-based.                  *)
(***************************************************************************)
EXTENDS Integers, Sequences, FiniteSets, TLC

VARIABLES headers, caption, layout_arr, data, cell_widths, last

vars == <<headers, caption, layout_arr, data, cell_widths, last>>

tableVars == <<headers, caption, layout_arr, data, cell_widths>>

-----------------------------------------------------------------------------
(* Bounds of the model                                                     *)

\* largest number of body entries a table holds
MaxEntries == 2

\* row_data of add_row holds up to cols + MaxExtra values
MaxExtra == 1

-----------------------------------------------------------------------------
(* Python str helpers                                                      *)

Max(a, b) == IF a >= b THEN a ELSE b

BS == "\\"

Whitespace == {" ", "\t", "\n"}

RECURSIVE Spaces(_)
Spaces(n) == IF n <= 0 THEN <<>> ELSE <<" ">> \o Spaces(n - 1)

RECURSIVE Concat(_)
Concat(seqs) == IF seqs = <<>> THEN <<>> ELSE Head(seqs) \o Concat(Tail(seqs))

\* str.replace(old, new): leftmost non-overlapping occurrences
RECURSIVE Replace(_, _, _)
Replace(text, old, new) ==
    IF Len(text) < Len(old) THEN text
    ELSE IF SubSeq(text, 1, Len(old)) = old
         THEN new \o Replace(SubSeq(text, Len(old) + 1, Len(text)), old, new)
         ELSE <<Head(text)>> \o Replace(Tail(text), old, new)

\* a ljust that cuts the text to the width
LjustTruncating(text, width) ==
    IF Len(text) >= width THEN SubSeq(text, 1, Max(width, 0))
    ELSE text \o Spaces(width - Len(text))

\* str.ljust(width): pads on the right, never truncates
Ljust(text, width) ==
    IF Len(text) >= width THEN text ELSE text \o Spaces(width - Len(text))

\* str.split(): the maximal runs of non-whitespace characters
RECURSIVE SplitFrom(_, _)
SplitFrom(text, word) ==
    IF text = <<>> THEN (IF word = <<>> THEN <<>> ELSE <<word>>)
    ELSE IF Head(text) \in Whitespace
         THEN (IF word = <<>> THEN <<>> ELSE <<word>>) \o SplitFrom(Tail(text), <<>>)
         ELSE SplitFrom(Tail(text), Append(word, Head(text)))

Split(text) == SplitFrom(text, <<>>)

LowerMap == [c \in {"T", "H", "A", "B"} |->
               CASE c = "T" -> "t" [] c = "H" -> "h" [] c = "A" -> "a" [] c = "B" -> "b"]

\* str.lower()
Lower(text) == [i \in 1..Len(text) |->
                  IF text[i] \in DOMAIN LowerMap THEN LowerMap[text[i]] ELSE text[i]]

\* str(n) of a natural number
RECURSIVE DecStr(_)
DecStr(n) ==
    LET d == <<"0", "1", "2", "3", "4", "5", "6", "7", "8", "9">>[(n % 10) + 1]
    IN  IF n < 10 THEN <<d>> ELSE Append(DecStr(n \div 10), d)

RECURSIVE Zeros(_)
Zeros(n) == IF n <= 0 THEN <<>> ELSE <<"0">> \o Zeros(n - 1)

\* f"{n:.{precision}f}" of a natural number n
FixedFormat(n, precision) ==
    IF precision = 0 THEN DecStr(n) ELSE DecStr(n) \o <<".">> \o Zeros(precision)

-----------------------------------------------------------------------------
(* Cell formatting                                                         *)

make_text_latex_save(text) ==
    LET t1 == Replace(Replace(text, <<"_">>, <<BS, "_">>), <<"^">>, <<BS, "^">>)
        t2 == Replace(t1, <<"$">>, <<BS, "$">>)
        t3 == Replace(Replace(t2, <<BS, "(">>, <<"(">>), <<BS, ")">>, <<")">>)
        t4 == Replace(Replace(t3, <<BS, "[">>, <<"[">>), <<BS, "]">>, <<"]">>)
    IN  t4

lengths(cells) == [i \in 1..Len(cells) |-> Len(cells[i])]

\* a value handed to the table: a number (isnum, n) or a string (s)
NumValue(n) == [isnum |-> TRUE, n |-> n, s |-> <<>>]
StrValue(s) == [isnum |-> FALSE, n |-> 0, s |-> s]

parse_cell_data(value, precision) ==
    IF value.isnum
    THEN <<BS, "n", "u", "m", "{">> \o FixedFormat(value.n, precision) \o <<"}">>
    ELSE make_text_latex_save(value.s)

-----------------------------------------------------------------------------
(* Body entries                                                            *)

table_cell_separator == <<" ", "&", " ">>

table_row_end == <<" ", BS, BS>>

Tabs == <<"\t", "\t">>

TableSeparator ==
    [kind |-> "separator", cell_data |-> <<>>, num_cols |-> 0, align |-> <<>>,
     multicol_data |-> <<>>]

\* _tableRow(data, parent): every value is formatted on construction
TableRow(row_data, precision) ==
    [kind |-> "row",
     cell_data |-> [i \in 1..Len(row_data) |-> parse_cell_data(row_data[i], precision)],
     num_cols |-> 0, align |-> <<>>, multicol_data |-> <<>>]

cell_sizes(row) == lengths(row.cell_data)

\* _tableMultiColumn(parent, num_cols, align, multi_col_data, other_data)
TableMultiColumn(num_cols, align, multi_col_data, other_data, precision) ==
    [kind |-> "multicolumn",
     cell_data |-> [i \in 1..Len(other_data) |-> parse_cell_data(other_data[i], precision)],
     num_cols |-> num_cols, align |-> align,
     multicol_data |-> parse_cell_data(multi_col_data, precision)]

RECURSIVE SumFirst(_, _)
\* sum(widths[:n]) for n >= 0
SumFirst(widths, n) ==
    IF n <= 0 \/ widths = <<>> THEN 0 ELSE Head(widths) + SumFirst(Tail(widths), n - 1)

\* one pass of the loop of _tableRow.to_latex, cells idx.. (0-based)
RECURSIVE RowCellsFrom(_, _, _, _)
RowCellsFrom(cells, idx, widths, cols) ==
    IF idx >= Len(cells) THEN <<>>
    ELSE Ljust(cells[idx + 1], widths[idx + 1])
         \o (IF idx < cols - 1 THEN table_cell_separator ELSE <<>>)
         \o RowCellsFrom(cells, idx + 1, widths, cols)

RowToLatex(row, widths, cols) ==
    RowCellsFrom(row.cell_data, 0, widths, cols) \o table_row_end

MultiColumnMacro(row) ==
    <<BS, "m", "u", "l", "t", "i", "c", "o", "l", "u", "m", "n", "{">>
    \o DecStr(row.num_cols) \o <<"}", "{">> \o row.align \o <<"}", "{">>
    \o row.multicol_data \o <<"}">>

needed_space(row, widths) ==
    SumFirst(widths, row.num_cols) + Len(table_cell_separator) * (row.num_cols - 1)

\* the loop of _tableMultiColumn.to_latex, trailing cells idx.. (0-based)
RECURSIVE MultiCellsFrom(_, _, _)
MultiCellsFrom(row, idx, widths) ==
    IF idx >= Len(row.cell_data) THEN <<>>
    ELSE table_cell_separator
         \o Ljust(row.cell_data[idx + 1], widths[idx + row.num_cols + 1])
         \o MultiCellsFrom(row, idx + 1, widths)

MultiColumnToLatex(row, widths) ==
    Ljust(MultiColumnMacro(row), needed_space(row, widths))
    \o MultiCellsFrom(row, 0, widths)
    \o table_row_end

\* an index past the end of _cell_widths raises IndexError
ToLatexRaises(entry, widths) ==
    CASE entry.kind = "row" -> Len(entry.cell_data) > Len(widths)
      [] entry.kind = "multicolumn" ->
             entry.cell_data # <<>> /\ Len(entry.cell_data) + entry.num_cols > Len(widths)
      [] OTHER -> FALSE

to_latex(entry, widths, cols) ==
    CASE entry.kind = "row" -> RowToLatex(entry, widths, cols)
      [] entry.kind = "multicolumn" -> MultiColumnToLatex(entry, widths)
      [] OTHER -> <<BS, "m", "i", "d", "r", "u", "l", "e">>

-----------------------------------------------------------------------------
(* Table: properties and line generation                                   *)

DefaultScale == 1

\* self._number_precision as __init__ sets it
number_precision == 3

\* width of one item of the numpy str array built from single characters
LayoutItemSize == 1

DefaultCaption == <<"H", "e", "r", "e", " ", "g", "o", "e", "s", " ", "m", "y", " ",
                    "c", "a", "p", "t", "i", "o", "n", ".">>

cols == Len(headers)

rows == Len(data)

\* the caption property: None and "" both give the default text
CaptionText == IF caption # <<>> THEN caption ELSE DefaultCaption

\* the layout property: "".join(self._layout)
layout == Concat(layout_arr)

RECURSIVE HeaderCellsFrom(_)
HeaderCellsFrom(idx) ==
    IF idx >= cols THEN <<>>
    ELSE Ljust(headers[idx + 1], cell_widths[idx + 1])
         \o (IF idx < cols - 1 THEN <<" ", "&", " ">> ELSE <<>>)
         \o HeaderCellsFrom(idx + 1)

generate_header == Tabs \o HeaderCellsFrom(0) \o <<" ", BS, BS>>

line_to_table_body(line) == Tabs \o to_latex(line, cell_widths, cols)

generate_table_body == [i \in 1..Len(data) |-> line_to_table_body(data[i])]

generate_latex ==
    << <<BS, "b", "e", "g", "i", "n", "{", "t", "a", "b", "l", "e", "}", "[", "h", "]">>,
       <<"\t">> \o <<BS, "c", "e", "n", "t", "e", "r", "i", "n", "g">>,
       <<"\t">> \o <<BS, "c", "a", "p", "t", "i", "o", "n", "{">> \o CaptionText \o <<"}">>,
       <<"\t">> \o <<BS, "l", "a", "b", "e", "l", "{", "t", "b", "l", ":">> \o Lower(Split(CaptionText)[1]) \o <<"}">>,
       <<"\t">> \o <<BS, "b", "e", "g", "i", "n", "{", "t", "a", "b", "u", "l", "a", "r", "x", "}", "{">> \o DecStr(DefaultScale)
                \o <<BS, "l", "i", "n", "e", "w", "i", "d", "t", "h", "}", "{">> \o layout \o <<"}">>,
       Tabs \o <<BS, "t", "o", "p", "r", "u", "l", "e">>,
       generate_header,
       Tabs \o <<BS, "m", "i", "d", "r", "u", "l", "e">> >>
    \o generate_table_body
    \o << Tabs \o <<BS, "b", "o", "t", "t", "o", "m", "r", "u", "l", "e">>,
          <<"\t">> \o <<BS, "e", "n", "d", "{", "t", "a", "b", "u", "l", "a", "r", "x", "}">>,
          <<BS, "e", "n", "d", "{", "t", "a", "b", "l", "e", "}">> >>

\* generate_latex raises IndexError: a caption without a word, or an entry
\* indexing past the width table
GenerateRaises ==
    \/ Split(CaptionText) = <<>>
    \/ \E i \in 1..Len(data) : ToLatexRaises(data[i], cell_widths)

-----------------------------------------------------------------------------
(* Inputs of the calls                                                     *)

\* the arguments of the constructor; caption "" stands for caption=None (both
\* are falsy)
ConstructorInputs ==
    { [header |-> << <<"k", "e", "y">> >>, caption |-> <<"T", "a", "b", " ", "A">>],
      [header |-> << <<"i", "d">>,
                     <<"s", "t", "a", "n", "d", "a", "r", "d", " ", "d", "e", "v", "i", "a", "t", "i", "o", "n">> >>,
       caption |-> <<>>] }

CellInputs == { StrValue(<<"a", "_">>), NumValue(2) }

MultiColInputs == { StrValue(<<"H">>) }

AlignInputs == { <<"c">> }

\* layout strings: whitespace only, one token, more tokens than columns
LayoutInputs == { <<" ">>, <<"c">>, <<"r", " ", "c", "l">> }

SeqsUpTo(S, n) == UNION { [1..k -> S] : k \in 0..n }

\* row_data of add_row: every list of cols values, and one list of each other
\* length up to cols + MaxExtra
RowInputs(n) ==
    [1..n -> CellInputs]
    \cup { [i \in 1..k |-> NumValue(2)] : k \in (0..(n + MaxExtra)) \ {n} }

\* an optional argument: given = FALSE is None
None == [given |-> FALSE, v |-> 0]
Some(v) == [given |-> TRUE, v |-> v]

-----------------------------------------------------------------------------
(* The record of the last call: its arguments (abstracted to what the      *)
(* properties read), how it ended and what it returned                     *)

NoCall ==
    [op |-> "construct", outcome |-> "ok", len |-> 0, span |-> None, idx |-> None,
     text |-> <<>>, value |-> <<>>]

-----------------------------------------------------------------------------
(* Table.set_layout                                                        *)

\* "".join(itertools.chain(*layout_string.split()))
cleaned_string(layout_string) == Concat(Split(layout_string))

LayoutWholeString(cleaned) == [i \in 1..Len(cleaned) |-> <<cleaned[i]>>]

\* np.array(list(cleaned_string[:self.cols]), dtype=str)
LayoutFromString(cleaned) == [i \in 1..cols |-> <<cleaned[i]>>]

\* storing a str into an item of a fixed-width numpy str array cuts it to the
\* item size
StoredItem(text) ==
    IF Len(text) > LayoutItemSize THEN SubSeq(text, 1, LayoutItemSize) ELSE text

SetLayout(layout_string, idx) ==
    LET cleaned == cleaned_string(layout_string)
        call == [NoCall EXCEPT !.op = "set_layout", !.text = layout_string, !.idx = idx]
    IN  /\ IF ~idx.given
           THEN IF Len(cleaned) >= cols
                THEN /\ layout_arr' = LayoutFromString(cleaned)
                     /\ last' = call
                ELSE /\ layout_arr' = layout_arr
                     /\ last' = [call EXCEPT !.outcome = "AssertionError"]
           ELSE IF idx.v >= cols
                THEN /\ layout_arr' = layout_arr
                     /\ last' = [call EXCEPT !.outcome = "IndexError"]
                ELSE /\ layout_arr' = [layout_arr EXCEPT ![idx.v + 1] = StoredItem(cleaned)]
                     /\ last' = call
        /\ UNCHANGED <<headers, caption, data, cell_widths>>

-----------------------------------------------------------------------------
(* Table.__init__                                                          *)

Init ==
    \E args \in ConstructorInputs, lay \in {None} \cup {Some(l) : l \in LayoutInputs} :
      LET h == args.header IN
        /\ headers = h
        /\ caption = args.caption
        /\ data = <<>>
        /\ cell_widths = lengths(h)
        /\ IF ~lay.given
           THEN layout_arr = [i \in 1..Len(h) |-> <<"l">>]
           ELSE /\ Len(cleaned_string(lay.v)) >= Len(h)
                /\ layout_arr = [i \in 1..Len(h) |-> <<cleaned_string(lay.v)[i]>>]
        /\ last = NoCall

-----------------------------------------------------------------------------
(* Table.add_separator                                                     *)

AddSeparator ==
    /\ Len(data) < MaxEntries
    /\ data' = Append(data, TableSeparator)
    /\ last' = [NoCall EXCEPT !.op = "add_separator"]
    /\ UNCHANGED <<headers, caption, layout_arr, cell_widths>>

-----------------------------------------------------------------------------
(* Table.add_multi_column                                                  *)

CountAtMostCols(num_cols, num_other_cells) == num_cols + num_other_cells <= cols

\* the assertion of add_multi_column
CountMatchesCols(num_cols, num_other_cells) == num_cols + num_other_cells = cols

AddMultiColumn(multicol_data, num_cols_arg, align, other_data) ==
    LET num_other_cells == Len(other_data)
        num_cols == IF ~num_cols_arg.given THEN cols ELSE num_cols_arg.v
        call == [NoCall EXCEPT !.op = "add_multi_column", !.span = num_cols_arg,
                               !.len = num_other_cells]
    IN  /\ Len(data) < MaxEntries
        /\ IF ~CountMatchesCols(num_cols, num_other_cells)
           THEN /\ data' = data
                /\ last' = [call EXCEPT !.outcome = "AssertionError"]
           ELSE /\ data' = Append(data, TableMultiColumn(num_cols, align, multicol_data,
                                                         other_data, number_precision))
                /\ last' = call
        /\ UNCHANGED <<headers, caption, layout_arr, cell_widths>>

-----------------------------------------------------------------------------
(* Table.add_row                                                           *)

KeepWidths(widths, sizes) == widths

TakeSizes(widths, sizes) == sizes

\* np.max([widths, sizes], axis=0) of two arrays of one length
MaxWidths(widths, sizes) == [i \in 1..Len(widths) |-> Max(widths[i], sizes[i])]

\* np.max of two arrays of different lengths raises ValueError
MaxRaises(widths, sizes) == Len(widths) # Len(sizes)

AddRowAppendFirst(row_data) ==
    LET call == [NoCall EXCEPT !.op = "add_row", !.len = Len(row_data)]
        new_row == TableRow(row_data, number_precision)
    IN  /\ Len(data) < MaxEntries
        /\ IF Len(row_data) < cols
           THEN /\ UNCHANGED <<data, cell_widths>>
                /\ last' = [call EXCEPT !.outcome = "AssertionError"]
           ELSE IF MaxRaises(cell_widths, cell_sizes(new_row))
                THEN /\ data' = Append(data, new_row)
                     /\ cell_widths' = cell_widths
                     /\ last' = [call EXCEPT !.outcome = "ValueError"]
                ELSE /\ cell_widths' = MaxWidths(cell_widths, cell_sizes(new_row))
                     /\ data' = Append(data, new_row)
                     /\ last' = call
        /\ UNCHANGED <<headers, caption, layout_arr>>

AddRow(row_data) ==
    LET call == [NoCall EXCEPT !.op = "add_row", !.len = Len(row_data)]
        new_row == TableRow(row_data, number_precision)
    IN  /\ Len(data) < MaxEntries
        /\ IF Len(row_data) < cols
           THEN /\ UNCHANGED <<data, cell_widths>>
                /\ last' = [call EXCEPT !.outcome = "AssertionError"]
           ELSE IF MaxRaises(cell_widths, cell_sizes(new_row))
                THEN /\ UNCHANGED <<data, cell_widths>>
                     /\ last' = [call EXCEPT !.outcome = "ValueError"]
                ELSE /\ cell_widths' = MaxWidths(cell_widths, cell_sizes(new_row))
                     /\ data' = Append(data, new_row)
                     /\ last' = call
        /\ UNCHANGED <<headers, caption, layout_arr>>

-----------------------------------------------------------------------------
(* Table._generate_latex                                                   *)

RenderWideningColumns ==
    /\ cell_widths' = [i \in 1..Len(cell_widths) |-> cell_widths[i] + 1]
    /\ last' = [NoCall EXCEPT !.op = "render", !.value = generate_latex]
    /\ UNCHANGED <<headers, caption, layout_arr, data>>

Render ==
    /\ IF GenerateRaises
       THEN last' = [NoCall EXCEPT !.op = "render", !.outcome = "IndexError"]
       ELSE last' = [NoCall EXCEPT !.op = "render", !.value = generate_latex]
    /\ UNCHANGED tableVars

-----------------------------------------------------------------------------
(* The calls a client can make on a constructed table                      *)

Next ==
    \/ \E s \in LayoutInputs, idx \in {None, Some(0), Some(cols)} :
          SetLayout(s, idx)
    \/ AddSeparator
    \/ \E m \in MultiColInputs, a \in AlignInputs,
          n \in {None} \cup {Some(i) : i \in 0..(cols + 1)},
          o \in SeqsUpTo(CellInputs, cols) :
          AddMultiColumn(m, n, a, o)
    \/ \E r \in RowInputs(cols) : AddRow(r)
    \/ Render

Spec == Init /\ [][Next]_vars

-----------------------------------------------------------------------------
(* Helpers of the properties                                               *)

SetMax(S) == CHOOSE m \in S : \A x \in S : x <= m

NonBlank(text) == SelectSeq(text, LAMBDA c : c \notin {" ", "\t", "\n"})

RECURSIVE SumOver(_, _)
\* sum of f[i] for i in the finite set of integers I
SumOver(f, I) ==
    IF I = {} THEN 0 ELSE LET i == CHOOSE x \in I : TRUE IN f[i] + SumOver(f, I \ {i})

\* text followed by blanks up to width characters
Padded(text, width) == text \o [i \in 1..(width - Len(text)) |-> " "]

\* the span add_multi_column used for the recorded call
CalledSpan(call) == IF call.span.given THEN call.span.v ELSE cols

\* the characters of line from position from (1-based), n of them
Piece(line, from, n) == SubSeq(line, from, from + n - 1)

-----------------------------------------------------------------------------
(* C1: add_row raises a validation error when row_data has fewer than cols
   values, and with cols or more values it succeeds and the number of entries
   grows by exactly one. *)
AddRowAcceptsAtLeastCols ==
    [][ last'.op = "add_row" =>
          IF last'.len < cols
          THEN last'.outcome = "AssertionError" /\ data' = data
          ELSE last'.outcome = "ok" /\ Len(data') = Len(data) + 1 ]_vars

(* C2: a call of add_row or add_multi_column that ends in an error leaves the
   entry list and the column widths exactly as they were. *)
RejectedAddLeavesTable ==
    [][ (last'.op \in {"add_row", "add_multi_column"} /\ last'.outcome # "ok")
          => (data' = data /\ cell_widths' = cell_widths) ]_vars

RejectedAddReached ==
    /\ last.op = "add_row"
    /\ last.outcome = "ValueError"
    /\ data # <<>>

(* C3: add_multi_column (span defaulting to cols) fails with a validation
   error unless span + len(trailing data) = cols; when the equality holds it
   appends exactly one multi-column entry with that span and those trailing
   cells. *)
MultiColumnCountRule ==
    [][ last'.op = "add_multi_column" =>
          LET span == CalledSpan(last') IN
          IF span + last'.len = cols
          THEN /\ last'.outcome = "ok"
               /\ Len(data') = Len(data) + 1
               /\ SubSeq(data', 1, Len(data)) = data
               /\ data'[Len(data')].kind = "multicolumn"
               /\ data'[Len(data')].num_cols = span
               /\ Len(data'[Len(data')].cell_data) = last'.len
          ELSE /\ last'.outcome = "AssertionError"
               /\ data' = data ]_vars

MultiColumnAccepted ==
    /\ cols = 2
    /\ last.op = "add_multi_column"
    /\ last.outcome = "ok"
    /\ last.span = Some(1)
    /\ last.len = 1
    /\ data[Len(data)].kind = "multicolumn"

(* C4: every column's tracked width never gets smaller, is always at least
   the length of the column's header, and the width table always has exactly
   cols entries. *)
WidthsCoverHeaders ==
    /\ Len(cell_widths) = cols
    /\ \A i \in 1..cols : cell_widths[i] >= Len(headers[i])

WidthsNeverShrink ==
    /\ WidthsCoverHeaders
    /\ [][ /\ WidthsCoverHeaders'
           /\ \A i \in 1..cols : cell_widths'[i] >= cell_widths[i] ]_vars

WidthGrown ==
    /\ last.op = "add_row"
    /\ last.outcome = "ok"
    /\ \E i \in 1..cols : cell_widths[i] > Len(headers[i])
    /\ \E i \in 1..cols : Len(data[Len(data)].cell_data[i]) < cell_widths[i]

(* C5: for each column the tracked width equals the maximum of the header's
   length and the lengths of the formatted cells in that column of all body
   entries: the cells of ordinary rows and the trailing cells of
   multi-column rows. *)
ColumnCellLengths(i) ==
    {Len(headers[i])}
    \cup { Len(data[k].cell_data[i]) :
             k \in {j \in 1..Len(data) :
                      data[j].kind = "row" /\ i <= Len(data[j].cell_data)} }
    \cup { Len(data[k].cell_data[i - data[k].num_cols]) :
             k \in {j \in 1..Len(data) :
                      /\ data[j].kind = "multicolumn"
                      /\ i - data[j].num_cols \in 1..Len(data[j].cell_data)} }

WidthsAreColumnMax ==
    \A i \in 1..cols : cell_widths[i] = SetMax(ColumnCellLengths(i))

(* C6: the layout string always has exactly cols characters, whatever
   set_layout calls were made. *)
LayoutLengthIsCols == Len(layout) = cols

(* C7: set_layout without an index: when the string without its whitespace
   has at least cols characters the layout becomes its first cols characters;
   with fewer the call fails with a validation error and the layout is left
   unchanged. *)
SetLayoutTakesFirstCols ==
    [][ (last'.op = "set_layout" /\ ~last'.idx.given) =>
          LET tokens == NonBlank(last'.text) IN
          IF Len(tokens) >= cols
          THEN last'.outcome = "ok" /\ layout' = SubSeq(tokens, 1, cols)
          ELSE last'.outcome = "AssertionError" /\ layout_arr' = layout_arr ]_vars

LayoutTokensDropped ==
    /\ cols = 2
    /\ last.op = "set_layout"
    /\ ~last.idx.given
    /\ last.outcome = "ok"
    /\ Len(NonBlank(last.text)) > cols
    /\ layout = <<"r", "c">>

(* C8: generating the lines changes nothing of the table and returns the
   projection of the table as it stood, so a second call with no mutation in
   between returns the same lines. *)
RenderIsReadOnly ==
    [][ last'.op = "render" =>
          /\ UNCHANGED tableVars
          /\ last'.outcome = "ok"
          /\ last'.value = generate_latex ]_vars

RenderedWithEntries ==
    /\ last.op = "render"
    /\ Len(data) >= 2
    /\ Len(last.value) = 11 + Len(data)

-----------------------------------------------------------------------------
(* The shape of generated body lines.  Line k of the body is line 8 + k of
   the generated lines; the header is line 7. *)

BodyLine(k) == last.value[8 + k]

HeaderLine == last.value[7]

Rendered == last.op = "render" /\ last.outcome = "ok"

\* line is: two tabs, the macro filling macro_field characters, then for each
\* trailing cell i (0-based) " & " and the cell filling field[i] characters,
\* then the row end
MultiColumnLineShape(line, row, macro_field, field) ==
    LET n == Len(row.cell_data)
        off(i) == 2 + macro_field + SumOver([j \in 0..(n - 1) |-> 3 + field[j]], 0..(i - 1))
    IN  /\ Len(line) = off(n) + 3
        /\ Piece(line, 1, 2) = Tabs
        /\ Piece(line, 3, macro_field) = Padded(MultiColumnMacro(row), macro_field)
        /\ \A i \in 0..(n - 1) :
              /\ Piece(line, off(i) + 1, 3) = <<" ", "&", " ">>
              /\ Piece(line, off(i) + 4, field[i]) = Padded(row.cell_data[i + 1], field[i])
        /\ Piece(line, off(n) + 1, 3) = <<" ", BS, BS>>

\* sum of the tracked widths of columns 0..s-1 plus 3 * (s - 1)
CombinedWidth(s) == SumOver(cell_widths, 1..s) + 3 * (s - 1)

(* C9 as stated: in the line of every multi-column row of span s the macro
   occupies exactly (sum of the widths of columns 0..s-1) + 3*(s-1)
   characters and each trailing cell i exactly the width of column s+i. *)
MultiColumnExactWidths ==
    Rendered =>
      \A k \in 1..Len(data) :
         data[k].kind = "multicolumn" =>
           LET s == data[k].num_cols IN
           MultiColumnLineShape(BodyLine(k), data[k], CombinedWidth(s),
               [i \in 0..(Len(data[k].cell_data) - 1) |-> cell_widths[s + i + 1]])

(* C9 amended: the macro is padded to the combined width but never cut, so
   it occupies max(len(macro), combined width) characters, and each trailing
   cell i occupies max(len(cell), width of column s+i) characters. *)
MultiColumnPaddedWidths ==
    Rendered =>
      \A k \in 1..Len(data) :
         data[k].kind = "multicolumn" =>
           LET s == data[k].num_cols IN
           MultiColumnLineShape(BodyLine(k), data[k],
               Max(Len(MultiColumnMacro(data[k])), CombinedWidth(s)),
               [i \in 0..(Len(data[k].cell_data) - 1) |->
                   Max(Len(data[k].cell_data[i + 1]), cell_widths[s + i + 1])])

MultiColumnRendered ==
    /\ Rendered
    /\ \E k \in 1..Len(data) :
          /\ data[k].kind = "multicolumn"
          /\ data[k].cell_data # <<>>
          /\ Len(MultiColumnMacro(data[k])) > CombinedWidth(data[k].num_cols)
    /\ \E k \in 1..Len(data) :
          /\ data[k].kind = "multicolumn"
          /\ Len(MultiColumnMacro(data[k])) < CombinedWidth(data[k].num_cols)

(* C10: every cell of an ordinary row is no longer than the tracked width of
   its column, so the header line and the line of every ordinary row have
   the same length and hold cols cells joined by cols - 1 separators at the
   same positions; also for earlier rows after a later row widened a
   column. *)
ColumnStart(i) == 2 + SumOver(cell_widths, 1..(i - 1)) + 3 * (i - 1)

RowsLineUp ==
    /\ \A k \in 1..Len(data) :
          data[k].kind = "row" =>
            /\ Len(data[k].cell_data) = cols
            /\ \A i \in 1..cols : Len(data[k].cell_data[i]) <= cell_widths[i]
    /\ Rendered =>
         \A k \in 1..Len(data) :
            data[k].kind = "row" =>
              /\ Len(BodyLine(k)) = Len(HeaderLine)
              /\ Len(BodyLine(k)) = ColumnStart(cols) + cell_widths[cols] + 3
              /\ \A i \in 1..cols :
                    /\ Piece(BodyLine(k), ColumnStart(i) + 1, cell_widths[i])
                         = Padded(data[k].cell_data[i], cell_widths[i])
                    /\ Piece(HeaderLine, ColumnStart(i) + 1, cell_widths[i])
                         = Padded(headers[i], cell_widths[i])
              /\ \A i \in 2..cols :
                    /\ Piece(BodyLine(k), ColumnStart(i) - 2, 3) = <<" ", "&", " ">>
                    /\ Piece(HeaderLine, ColumnStart(i) - 2, 3) = <<" ", "&", " ">>

EarlierRowWidened ==
    /\ Rendered
    /\ cols = 2
    /\ Len(data) >= 2
    /\ data[1].kind = "row"
    /\ data[2].kind = "row"
    /\ Len(data[1].cell_data[1]) < Len(data[2].cell_data[1])

====
